---- MODULE Spec2Model ----
\* A model of meta_blocks/datasets/omniglot.py and examples/omniglot/run.py.
\*
\* Four components, each with its own specification:
\*   SpecChar    OmniglotCharacter._build                 (variables ch_...)
\*   SpecSource  OmniglotDataSource._build                (variables ds_...)
\*   SpecMeta    OmniglotMetaDataset and OmniglotDataset  (variables md_...)
\*   SpecMain    run.py main and its child processes      (variables mn_...)
\* A specification keeps the other components' variables at their "off" values.
EXTENDS Integers, Sequences, FiniteSets, TLC

VARIABLES
    \* OmniglotCharacter
    ch_listing,     \* what glob.glob(data_dir/*.png) returns
    ch_rotation,    \* self.rotation
    ch_shuffle,     \* self.shuffle
    ch_max_size,    \* self.max_size
    ch_file_paths,  \* the local file_paths after the optional shuffle
    ch_size,        \* self.size
    ch_data,        \* self.data
    ch_pc,          \* "new", "built", "raised" ("off" outside SpecChar)
    \* OmniglotDataSource
    ds_num_train,   \* self.num_train
    ds_num_valid,   \* self.num_valid
    ds_num_test,    \* self.num_test
    ds_rotations,   \* self.rotations
    ds_shuffle_categories, \* self.shuffle_categories
    ds_loader,      \* self.shuffle_data and self.max_size
    ds_tree,        \* the directory tree under self.data_dir
    ds_characters,  \* the local list characters when it is partitioned
    ds_data,        \* self.data
    ds_pc,          \* "new", "built" ("off" outside SpecSource)
    \* OmniglotMetaDataset and the OmniglotDataset objects it holds
    md_batch_size,    \* self.batch_size
    md_num_classes,   \* self.num_classes
    md_data_sources,  \* self.data_sources
    md_dataset_batch, \* self.dataset_batch
    md_request,       \* the arguments of the call in progress or just ended
    md_result,        \* what that call returned or raised
    md_seen,          \* history of the calls so far: "raised" once a
                      \* request_datasets call has failed, "repeat" once one
                      \* with unique_classes=False has returned an episode
                      \* with a repeated index
    md_pc,            \* "new", "idle", "returned" ("off" outside SpecMeta)
    \* run.py: main and the child processes
    mn_cfg,         \* cfg.eval and cfg.train (whether set), cfg.run.timeout
    mn_processes,   \* the local list processes, by process name
    mn_child,       \* each child process: "unstarted", "running", "exited",
                    \* "terminated"
    mn_next,        \* the position in processes of the join loop
    mn_waited,      \* seconds the current join has waited
    mn_joined,      \* the joins that have returned, in order
    mn_pc           \* main at: "eval", "train", "join", "done" ("off" outside
                    \* SpecMain)

chVars == <<ch_listing, ch_rotation, ch_shuffle, ch_max_size, ch_file_paths,
            ch_size, ch_data, ch_pc>>
dsVars == <<ds_num_train, ds_num_valid, ds_num_test, ds_rotations,
            ds_shuffle_categories, ds_loader, ds_tree, ds_characters,
            ds_data, ds_pc>>
mdSelf == <<md_batch_size, md_num_classes, md_data_sources, md_dataset_batch>>
mdVars == <<mdSelf, md_request, md_result, md_seen, md_pc>>
mnVars == <<mn_cfg, mn_processes, mn_child, mn_next, mn_waited, mn_joined, mn_pc>>
vars == <<chVars, dsVars, mdVars, mnVars>>

\* Python's None, and a value that is not None: an attribute that may be None
\* holds None or Some(v), and Val gives v back.
None == <<>>
Some(v) == <<v>>
Val(o) == o[1]

----------------------------------------------------------------------------
(* Bounds *)

\* Image files in one character directory.
MaxFiles == 3
\* Character directories in the data directory.
MaxChars == 3
\* Length of the rotations tuple.
MaxRot == 2
\* The meta-batch size.
MaxBatch == 2
\* Classes per episode.
MaxClasses == 2
\* Characters handed to the sampler as data_sources.
MaxSources == 2
\* cfg.run.timeout, in seconds.
MaxTimeout == 2

----------------------------------------------------------------------------
(* Python sequence helpers *)

Min(a, b) == IF a < b THEN a ELSE b
Max(a, b) == IF a > b THEN a ELSE b

\* A slice bound i of a sequence of length n, as Python resolves it: a negative
\* bound counts from the end, and the result is clamped into 0..n.
SliceIndex(i, n) == IF i < 0 THEN Max(i + n, 0) ELSE Min(i, n)

\* s[:stop]
SliceTo(s, stop) == SubSeq(s, 1, SliceIndex(stop, Len(s)))

\* s[start:]
SliceFrom(s, start) == SubSeq(s, SliceIndex(start, Len(s)) + 1, Len(s))

\* The orders random.shuffle can leave a list in.
Shuffles(s) ==
    { [i \in 1..Len(s) |-> s[p[i]]] :
        p \in { q \in [1..Len(s) -> 1..Len(s)] :
                  \A i, j \in 1..Len(s) : q[i] = q[j] => i = j } }

\* The elements of a sequence.
Range(s) == { s[i] : i \in 1..Len(s) }

RECURSIVE Join(_)
\* "".join(tokens)
Join(tokens) ==
    IF tokens = <<>> THEN "" ELSE Head(tokens) \o Join(Tail(tokens))

----------------------------------------------------------------------------
(* OmniglotCharacter *)

\* Image.open(fp).resize(...), rotated when self.rotation is non-zero, as an array.
LoadImage(fpath, rotation) ==
    [file |-> fpath, rotated |-> IF rotation # 0 THEN rotation ELSE 0]

\* The truncation keeping one file more than max_size.
TruncateMut(file_paths, max_size) ==
    IF max_size = None THEN file_paths ELSE SliceTo(file_paths, Val(max_size) + 1)

\* file_paths[: self.max_size] when max_size is set.
Truncate(file_paths, max_size) ==
    IF max_size = None THEN file_paths ELSE SliceTo(file_paths, Val(max_size))

\* OmniglotCharacter._build, for the order file_paths the shuffle left.
CharacterBuild(file_paths) ==
    LET kept == Truncate(file_paths, ch_max_size)
        data == [i \in 1..Len(kept) |-> LoadImage(kept[i], ch_rotation)]
    IN  /\ ch_pc = "new"
        /\ ch_file_paths' = file_paths
        /\ ch_size' = Some(Len(kept))
        /\ IF data = <<>>
             THEN \* np.stack([]) raises ValueError; self.data stays None.
                  /\ ch_data' = None
                  /\ ch_pc' = "raised"
             ELSE /\ ch_data' = Some(data)
                  /\ ch_pc' = "built"
        /\ UNCHANGED <<ch_listing, ch_rotation, ch_shuffle, ch_max_size>>

CharBuildShuffled ==
    /\ ch_shuffle
    /\ \E file_paths \in Shuffles(ch_listing) : CharacterBuild(file_paths)
    /\ UNCHANGED <<dsVars, mdVars, mnVars>>

CharBuildInOrder ==
    /\ ~ch_shuffle
    /\ CharacterBuild(ch_listing)
    /\ UNCHANGED <<dsVars, mdVars, mnVars>>

\* A built (or failed) character object is dropped and a new one constructed.
CharNew(n, rotation, shuffle, max_size) ==
    /\ ch_listing = [i \in 1..n |-> i]
    /\ ch_rotation = rotation
    /\ ch_shuffle = shuffle
    /\ ch_max_size = max_size
    /\ ch_file_paths = <<>>
    /\ ch_size = None
    /\ ch_data = None
    /\ ch_pc = "new"

CharOff ==
    /\ ch_listing = <<>>
    /\ ch_rotation = 0
    /\ ch_shuffle = FALSE
    /\ ch_max_size = None
    /\ ch_file_paths = <<>>
    /\ ch_size = None
    /\ ch_data = None
    /\ ch_pc = "off"

CharInit ==
    \E n \in 0..MaxFiles, rotation \in {0, 90}, shuffle \in BOOLEAN,
       max_size \in {None} \cup { Some(k) : k \in -1..(MaxFiles + 1) } :
        CharNew(n, rotation, shuffle, max_size)

----------------------------------------------------------------------------
(* OmniglotDataSource *)

\* The directory tree: the alphabets in sorted order, each with its entries in
\* sorted order.  An entry's name is prefix \o suffix.  n character directories
\* are spread over two alphabets, among entries the walk must skip.
Alphabet(tokens, ids) ==
    [tokens |-> tokens, is_dir |-> TRUE,
     entries |->
        [i \in 1..Len(ids) |->
            [prefix |-> "character", suffix |-> ToString(ids[i]), is_dir |-> TRUE]]
        \o << [prefix |-> "character", suffix |-> "s.txt", is_dir |-> FALSE],
              [prefix |-> "strokes", suffix |-> "", is_dir |-> TRUE] >>]

Tree(n) ==
    << Alphabet(<<"Greek", "(", "old", ")">>, [i \in 1..((n + 1) \div 2) |-> i]),
       [tokens |-> <<"README">>, is_dir |-> FALSE, entries |-> <<>>],
       Alphabet(<<"Latin">>, [i \in 1..(n \div 2) |-> ((n + 1) \div 2) + i]) >>

\* OmniglotCharacter(data_dir, rotation, shuffle, max_size, name).build(); the
\* images it loads are modelled by SpecChar.
Character(data_dir, rotation, loader, name) ==
    [data_dir |-> data_dir, rotation |-> rotation, shuffle |-> loader.shuffle,
     max_size |-> loader.max_size, name |-> name]

\* f"{alphabet_name}_{name}".replace("(", "").replace(")", "")
CharName(alphabet, entry) ==
    Join(SelectSeq(alphabet.tokens \o <<"_", entry.prefix, entry.suffix>>,
                   LAMBDA t : t \notin {"(", ")"}))

RECURSIVE WalkEntries(_, _, _)
WalkEntries(alphabet, entries, loader) ==
    IF entries = <<>> THEN <<>>
    ELSE LET e == Head(entries)
             rest == WalkEntries(alphabet, Tail(entries), loader)
         IN  IF ~e.is_dir \/ e.prefix # "character" THEN rest
             ELSE << Character(
                        "data/" \o Join(alphabet.tokens) \o "/" \o e.prefix \o e.suffix,
                        0, loader, CharName(alphabet, e)) >> \o rest

RECURSIVE Walk(_, _)
\* The two nested loops of _build over the sorted listings.
Walk(tree, loader) ==
    IF tree = <<>> THEN <<>>
    ELSE LET a == Head(tree)
         IN  (IF ~a.is_dir THEN <<>> ELSE WalkEntries(a, a.entries, loader))
             \o Walk(Tail(tree), loader)

\* The dict assigned to self.data.
Partition(characters, num_train, num_valid, num_test) ==
    [train |-> SliceTo(characters, num_train),
     valid |-> SliceTo(SliceFrom(characters, num_train), num_valid),
     test  |-> SliceFrom(SliceFrom(characters, num_test), 0 - num_test)]

RECURSIVE RotatedMut(_, _, _)
\* The loops swapped: every rotation of one character before the next character.
RotatedMut(train, rotations, loader) ==
    IF train = <<>> THEN <<>>
    ELSE [j \in 1..Len(rotations) |->
            Character(Head(train).data_dir, rotations[j], loader,
                      Head(train).name \o "_" \o ToString(rotations[j]))]
         \o RotatedMut(Tail(train), rotations, loader)

RECURSIVE Rotated(_, _, _)
\* rotated_train_characters: for each rotation, every training character again.
Rotated(train, rotations, loader) ==
    IF rotations = <<>> THEN <<>>
    ELSE [i \in 1..Len(train) |->
            Character(train[i].data_dir, Head(rotations), loader,
                      train[i].name \o "_" \o ToString(Head(rotations)))]
         \o Rotated(train, Tail(rotations), loader)

\* OmniglotDataSource._build, for the order the shuffle left characters in.
SourceBuild(characters) ==
    LET split == Partition(characters, ds_num_train, ds_num_valid, ds_num_test)
    IN  /\ ds_pc = "new"
        /\ ds_characters' = characters
        /\ ds_data' =
             IF ds_rotations = None THEN Some(split)
             ELSE Some([split EXCEPT
                          !.train = split.train
                              \o Rotated(split.train, Val(ds_rotations), ds_loader)])
        /\ ds_pc' = "built"
        /\ UNCHANGED <<ds_num_train, ds_num_valid, ds_num_test, ds_rotations,
                       ds_shuffle_categories, ds_loader, ds_tree>>

SourceBuildShuffled ==
    /\ ds_shuffle_categories
    /\ \E characters \in Shuffles(Walk(ds_tree, ds_loader)) : SourceBuild(characters)
    /\ UNCHANGED <<chVars, mdVars, mnVars>>

SourceBuildInOrder ==
    /\ ~ds_shuffle_categories
    /\ SourceBuild(Walk(ds_tree, ds_loader))
    /\ UNCHANGED <<chVars, mdVars, mnVars>>

RotationTuples ==
    UNION { [1..m -> {90, 180}] : m \in 0..MaxRot }

\* shuffle_data and max_category_size as the constructor defaults them.
LoaderOptions ==
    { [shuffle |-> TRUE, max_size |-> None] }

SourceOff ==
    /\ ds_num_train = 0
    /\ ds_num_valid = 0
    /\ ds_num_test = 0
    /\ ds_rotations = None
    /\ ds_shuffle_categories = FALSE
    /\ ds_loader = [shuffle |-> FALSE, max_size |-> None]
    /\ ds_tree = <<>>
    /\ ds_characters = <<>>
    /\ ds_data = None
    /\ ds_pc = "off"

SourceInit ==
    \E n \in 0..MaxChars :
        /\ ds_num_train \in 0..(MaxChars + 1)
        /\ ds_num_valid \in 0..(MaxChars + 1)
        /\ ds_num_test \in 0..(MaxChars + 1)
        /\ ds_rotations \in {None} \cup { Some(r) : r \in RotationTuples }
        /\ ds_shuffle_categories \in BOOLEAN
        /\ ds_loader \in LoaderOptions
        /\ ds_tree = Tree(n)
        /\ ds_characters = <<>>
        /\ ds_data = None
        /\ ds_pc = "new"

----------------------------------------------------------------------------
(* OmniglotDataset and OmniglotMetaDataset *)

\* What a call did: it returned a value or raised an exception.
Return(value) == [returned |-> Some(value), raised |-> None]
Raise(type, args) == [returned |-> None, raised |-> Some([type |-> type, args |-> args])]

\* s[i] for a Python index i: a negative index counts from the end.
IndexInRange(s, i) == 0 - Len(s) <= i /\ i < Len(s)
GetItem(s, i) == IF i < 0 THEN s[Len(s) + i + 1] ELSE s[i + 1]

\* A built character handed to the sampler: character i holds i images, and its
\* data array is known by the character and its leading dimension.
Source(i) ==
    [name |-> "character" \o ToString(i), size |-> i,
     data |-> [character |-> i, items |-> i]]

\* tf.placeholder(..., name=f"data_class_{k}") built by dataset number i.
Placeholder(i, k) == [dataset |-> i, name |-> "data_class_" \o ToString(k)]

\* OmniglotDataset(num_classes, data_sources, name=f"Dataset{i}").build()
DatasetBuild(i, num_classes, data_sources) ==
    [name |-> "Dataset" \o ToString(i),
     num_classes |-> num_classes,
     data_tensors |-> [k \in 1..num_classes |-> Placeholder(i, k - 1)],
     size |-> num_classes * GetItem(data_sources, 0).size]

\* OmniglotMetaDataset._build
MetaBuildBatch(batch_size, num_classes, data_sources) ==
    [i \in 1..batch_size |-> DatasetBuild(i - 1, num_classes, data_sources)]

\* list(zip(a, b))
Zip(a, b) == [k \in 1..Min(Len(a), Len(b)) |-> <<a[k], b[k]>>]

\* get_feed_list without its assertion.
GetFeedListMut(dataset, data_arrays) ==
    Return(Zip(dataset.data_tensors, data_arrays))

\* OmniglotDataset.get_feed_list
GetFeedList(dataset, data_arrays) ==
    IF Len(data_arrays) # Len(dataset.data_tensors)
      THEN Raise("AssertionError", <<>>)
      ELSE Return(Zip(dataset.data_tensors, data_arrays))

\* replace=(not unique_classes), with the negation lost.
ReplaceMut(unique_classes) == unique_classes

\* replace=(not unique_classes)
Replace(unique_classes) == ~unique_classes

\* What self._rng.choice(n, size=size, replace=replace) can return, as a tuple.
Choice(n, size, replace) ==
    { ids \in [1..size -> 0..(n - 1)] :
        replace \/ \A a, b \in 1..size : ids[a] = ids[b] => a = b }

\* choice raises ValueError for a sample without replacement larger than n.
ChoiceRaises(n, size, replace) == ~replace /\ size > n

\* What the generator can draw in one call: one choice per episode, or nothing
\* when the first choice raises.
Draws(self, unique_classes) ==
    IF /\ self.batch_size > 0
       /\ ChoiceRaises(Len(self.data_sources), self.num_classes,
                       Replace(unique_classes))
      THEN { <<>> }
      ELSE [1..self.batch_size ->
              Choice(Len(self.data_sources), self.num_classes,
                     Replace(unique_classes))]

\* The tuple the generator expression builds from the draws.
Generated(self, unique_classes, draws) ==
    IF /\ self.batch_size > 0
       /\ ChoiceRaises(Len(self.data_sources), self.num_classes,
                       Replace(unique_classes))
      THEN Raise("ValueError", <<"sample larger than population">>)
      ELSE Return(draws)

\* elif len(requests_batch) > self.batch_size
LengthMismatchMut(requests_batch, batch_size) == Len(requests_batch) > batch_size

\* elif len(requests_batch) != self.batch_size
LengthMismatch(requests_batch, batch_size) == Len(requests_batch) # batch_size

\* feed_list.extend(...) putting the new pairs first.
ExtendMut(feed_list, pairs) == pairs \o feed_list

\* feed_list.extend(pairs)
Extend(feed_list, pairs) == feed_list \o pairs

RECURSIVE FeedLoop(_, _, _, _)
\* The loop over enumerate(requests_batch), from episode n with feed_list so far.
FeedLoop(self, requests_batch, n, feed_list) ==
    IF n = Len(requests_batch) THEN Return(<<requests_batch, feed_list>>)
    ELSE LET ids == requests_batch[n + 1]
         IN  IF \E k \in 1..Len(ids) : ~IndexInRange(self.data_sources, ids[k])
               THEN Raise("IndexError", <<"data_sources">>)
             ELSE IF ~IndexInRange(self.dataset_batch, n)
               THEN Raise("IndexError", <<"dataset_batch">>)
             ELSE LET data_arrays ==
                        [k \in 1..Len(ids) |-> GetItem(self.data_sources, ids[k]).data]
                      pairs == GetFeedList(GetItem(self.dataset_batch, n), data_arrays)
                  IN  IF pairs.raised # None THEN pairs
                      ELSE FeedLoop(self, requests_batch, n + 1,
                                    Extend(feed_list, Val(pairs.returned)))

\* self.request_datasets(requests_batch, unique_classes), the generator
\* drawing draws.
RequestDatasets(self, requests_batch, unique_classes, draws) ==
    IF requests_batch = None
      THEN LET g == Generated(self, unique_classes, draws)
           IN  IF g.raised # None THEN g
               ELSE FeedLoop(self, Val(g.returned), 0, <<>>)
    ELSE IF LengthMismatch(Val(requests_batch), self.batch_size)
      THEN Raise("ValueError",
                 <<"requests", Len(Val(requests_batch)),
                   "batch size", self.batch_size>>)
    ELSE FeedLoop(self, Val(requests_batch), 0, <<>>)

Self ==
    [batch_size |-> md_batch_size, num_classes |-> md_num_classes,
     data_sources |-> md_data_sources, dataset_batch |-> md_dataset_batch]

\* An episode with a repeated index.
HasRepeat(ids) == \E a, b \in 1..Len(ids) : a # b /\ ids[a] = ids[b]

MetaBuild ==
    /\ md_pc = "new"
    /\ md_dataset_batch' =
         MetaBuildBatch(md_batch_size, md_num_classes, md_data_sources)
    /\ md_pc' = "idle"
    /\ UNCHANGED <<md_batch_size, md_num_classes, md_data_sources, md_request,
                   md_result, md_seen>>
    /\ UNCHANGED <<chVars, dsVars, mnVars>>

\* request_datasets that drops the dataset batch when the call fails.
MetaRequestMut(requests_batch, unique_classes, draws) ==
    LET res == RequestDatasets(Self, requests_batch, unique_classes, draws)
    IN  /\ md_pc = "idle"
        /\ md_result' = Some(res)
        /\ md_seen' = md_seen
        /\ md_dataset_batch' = IF res.raised # None THEN <<>> ELSE md_dataset_batch
        /\ md_request' = Some([kind |-> "request_datasets",
                               requests_batch |-> requests_batch,
                               unique_classes |-> unique_classes,
                               dataset |-> 0, data_arrays |-> <<>>])
        /\ md_pc' = "returned"
        /\ UNCHANGED <<md_batch_size, md_num_classes, md_data_sources>>

\* One call of request_datasets on the built sampler.
MetaRequest(requests_batch, unique_classes, draws) ==
    LET res == RequestDatasets(Self, requests_batch, unique_classes, draws)
    IN  /\ md_pc = "idle"
        /\ md_result' = Some(res)
        /\ md_seen' =
             md_seen
               \cup (IF res.raised # None THEN {"raised"} ELSE {})
               \cup (IF /\ requests_batch = None
                        /\ ~unique_classes
                        /\ res.returned # None
                        /\ \E e \in Range(Val(res.returned)[1]) : HasRepeat(e)
                      THEN {"repeat"} ELSE {})
        /\ md_request' = Some([kind |-> "request_datasets",
                               requests_batch |-> requests_batch,
                               unique_classes |-> unique_classes,
                               dataset |-> 0, data_arrays |-> <<>>])
        /\ md_pc' = "returned"
        /\ UNCHANGED mdSelf

\* requests_batch omitted.
MetaRequestGenerated ==
    /\ md_pc = "idle"
    /\ \E unique_classes \in BOOLEAN :
         \E draws \in Draws(Self, unique_classes) :
            MetaRequest(None, unique_classes, draws)
    /\ UNCHANGED <<chVars, dsVars, mnVars>>

\* The episodes a caller pins: well formed, one index short, one index long,
\* its last index just past the end, or its first index -1.
Episodes(num_classes, n) == [1..num_classes -> 0..(n - 1)]

BadEpisodes(e, n) ==
    {e \o <<0>>}
      \cup (IF e = <<>> THEN {}
            ELSE {Tail(e), [e EXCEPT ![Len(e)] = n], [e EXCEPT ![1] = -1]})

\* A caller pins a well-formed batch.
MetaRequestPinned ==
    /\ md_pc = "idle"
    /\ \E requests_batch \in
            [1..md_batch_size -> Episodes(md_num_classes, Len(md_data_sources))] :
         MetaRequest(Some(requests_batch), TRUE, <<>>)
    /\ UNCHANGED <<chVars, dsVars, mnVars>>

\* Variants of the batch that repeats episode e: its last episode dropped, one
\* episode too many, or one episode replaced by a bad one.
Variants(batch_size, e, n) ==
    LET b == [j \in 1..batch_size |-> e]
    IN  {b \o <<e>>}
        \cup (IF batch_size > 0 THEN {SubSeq(b, 1, batch_size - 1)} ELSE {})
        \cup UNION { { [b EXCEPT ![j] = bad] : bad \in BadEpisodes(e, n) } :
                       j \in 1..batch_size }

\* A caller pins a batch that is not the sampler's shape.
MetaRequestVariant ==
    /\ md_pc = "idle"
    /\ \E e \in Episodes(md_num_classes, Len(md_data_sources)) :
         \E requests_batch \in Variants(md_batch_size, e, Len(md_data_sources)) :
            MetaRequest(Some(requests_batch), TRUE, <<>>)
    /\ UNCHANGED <<chVars, dsVars, mnVars>>

\* The arrays a caller hands to get_feed_list: any number from none to one too
\* many, each some character's data.
ArrayTuples(num_classes, data_sources) ==
    UNION { [1..m -> { data_sources[i].data : i \in 1..Len(data_sources) }] :
              m \in 0..(num_classes + 1) }

\* One direct call of get_feed_list on dataset n of the batch.
DatasetGetFeedList ==
    /\ md_pc = "idle"
    /\ \E n \in 0..(md_batch_size - 1),
          data_arrays \in ArrayTuples(md_num_classes, md_data_sources) :
         /\ md_result' = Some(GetFeedList(GetItem(md_dataset_batch, n), data_arrays))
         /\ md_request' = Some([kind |-> "get_feed_list",
                                requests_batch |-> None,
                                unique_classes |-> TRUE,
                                dataset |-> n, data_arrays |-> data_arrays])
    /\ md_pc' = "returned"
    /\ UNCHANGED <<mdSelf, md_seen>>
    /\ UNCHANGED <<chVars, dsVars, mnVars>>

\* The caller is done with the result (or has caught the exception) and the
\* sampler waits for the next call.
MetaRelease ==
    /\ md_pc = "returned"
    /\ md_request' = None
    /\ md_result' = None
    /\ md_pc' = "idle"
    /\ UNCHANGED <<mdSelf, md_seen>>
    /\ UNCHANGED <<chVars, dsVars, mnVars>>

MetaOff ==
    /\ md_batch_size = 0
    /\ md_num_classes = 0
    /\ md_data_sources = <<>>
    /\ md_dataset_batch = <<>>
    /\ md_request = None
    /\ md_result = None
    /\ md_seen = {}
    /\ md_pc = "off"

\* OmniglotMetaDataset.__init__
MetaInit ==
    /\ md_batch_size \in 0..MaxBatch
    /\ md_num_classes \in 0..MaxClasses
    /\ \E n \in 1..MaxSources : md_data_sources = [i \in 1..n |-> Source(i)]
    /\ md_dataset_batch = <<>>
    /\ md_request = None
    /\ md_result = None
    /\ md_seen = {}
    /\ md_pc = "new"

----------------------------------------------------------------------------
(* run.py *)

Children == {"EVAL", "TRAIN"}

\* Process(target=..., args=(cfg,), name=name).start(); processes.append(...)
Start(name) ==
    /\ mn_child' = [mn_child EXCEPT ![name] = "running"]
    /\ mn_processes' = Append(mn_processes, name)

\* if cfg.eval is not None: start EVAL
MainEval ==
    /\ mn_pc = "eval"
    /\ IF mn_cfg.eval THEN Start("EVAL") ELSE UNCHANGED <<mn_child, mn_processes>>
    /\ mn_pc' = "train"
    /\ UNCHANGED <<mn_cfg, mn_next, mn_waited, mn_joined>>
    /\ UNCHANGED <<chVars, dsVars, mdVars>>

\* if cfg.train is not None: start TRAIN; then the join loop begins
MainTrain ==
    /\ mn_pc = "train"
    /\ IF mn_cfg.train THEN Start("TRAIN") ELSE UNCHANGED <<mn_child, mn_processes>>
    /\ mn_pc' = "join"
    /\ UNCHANGED <<mn_cfg, mn_next, mn_waited, mn_joined>>
    /\ UNCHANGED <<chVars, dsVars, mdVars>>

\* The join in progress is on processes[mn_next].
Joining(p) ==
    /\ mn_pc = "join"
    /\ mn_next <= Len(mn_processes)
    /\ p = mn_processes[mn_next]

\* What a join that returns leaves behind: the loop moves to the next process.
JoinReturns(p, outcome) ==
    /\ mn_joined' = Append(mn_joined,
                           [name |-> p, timeout |-> mn_cfg.timeout,
                            outcome |-> outcome])
    /\ mn_next' = mn_next + 1
    /\ mn_waited' = 0

\* p.join(timeout) returns because the child has exited.
MainJoinExited ==
    /\ \E p \in Children :
         /\ Joining(p)
         /\ mn_child[p] = "exited"
         /\ JoinReturns(p, "exited")
    /\ UNCHANGED <<mn_cfg, mn_processes, mn_child, mn_pc>>
    /\ UNCHANGED <<chVars, dsVars, mdVars>>

\* A timed-out join that terminates the child it waited for.
TimedOutMut(p) ==
    /\ JoinReturns(p, "timed out")
    /\ mn_child' = [mn_child EXCEPT ![p] = "terminated"]

\* p.join(timeout) returns because the timeout has elapsed: it only stops
\* waiting.
TimedOut(p) ==
    /\ JoinReturns(p, "timed out")
    /\ UNCHANGED mn_child

MainJoinTimeout ==
    /\ \E p \in Children :
         /\ Joining(p)
         /\ mn_child[p] = "running"
         /\ mn_cfg.timeout # None
         /\ mn_waited >= Val(mn_cfg.timeout)
         /\ TimedOut(p)
    /\ UNCHANGED <<mn_cfg, mn_processes, mn_pc>>
    /\ UNCHANGED <<chVars, dsVars, mdVars>>

\* A second passes while a join with a timeout waits for a running child.  (A
\* join with timeout=None waits without a clock.)
Tick ==
    /\ \E p \in Children :
         /\ Joining(p)
         /\ mn_child[p] = "running"
    /\ mn_cfg.timeout # None
    /\ mn_waited < Val(mn_cfg.timeout)
    /\ mn_waited' = mn_waited + 1
    /\ UNCHANGED <<mn_cfg, mn_processes, mn_child, mn_next, mn_joined, mn_pc>>
    /\ UNCHANGED <<chVars, dsVars, mdVars>>

\* The for loop over processes is exhausted and main returns.
MainReturn ==
    /\ mn_pc = "join"
    /\ mn_next > Len(mn_processes)
    /\ mn_pc' = "done"
    /\ UNCHANGED <<mn_cfg, mn_processes, mn_child, mn_next, mn_waited, mn_joined>>
    /\ UNCHANGED <<chVars, dsVars, mdVars>>

\* A running child (evaluate(cfg) or train(cfg)) exits; it may never do so.
ChildExit ==
    /\ \E p \in Children :
         /\ mn_child[p] = "running"
         /\ mn_child' = [mn_child EXCEPT ![p] = "exited"]
    /\ UNCHANGED <<mn_cfg, mn_processes, mn_next, mn_waited, mn_joined, mn_pc>>
    /\ UNCHANGED <<chVars, dsVars, mdVars>>

MainOff ==
    /\ mn_cfg = [eval |-> FALSE, train |-> FALSE, timeout |-> None]
    /\ mn_processes = <<>>
    /\ mn_child = [p \in Children |-> "unstarted"]
    /\ mn_next = 1
    /\ mn_waited = 0
    /\ mn_joined = <<>>
    /\ mn_pc = "off"

MainInit ==
    /\ mn_cfg \in [eval : BOOLEAN, train : BOOLEAN,
                   timeout : {None} \cup { Some(t) : t \in 0..MaxTimeout }]
    /\ mn_processes = <<>>
    /\ mn_child = [p \in Children |-> "unstarted"]
    /\ mn_next = 1
    /\ mn_waited = 0
    /\ mn_joined = <<>>
    /\ mn_pc = "eval"

----------------------------------------------------------------------------
(* Specifications *)

InitChar == CharInit /\ SourceOff /\ MetaOff /\ MainOff
NextChar == CharBuildShuffled \/ CharBuildInOrder
SpecChar == InitChar /\ [][NextChar]_vars

InitSource == CharOff /\ SourceInit /\ MetaOff /\ MainOff
NextSource == SourceBuildShuffled \/ SourceBuildInOrder
SpecSource == InitSource /\ [][NextSource]_vars

InitMeta == CharOff /\ SourceOff /\ MetaInit /\ MainOff
NextMeta ==
    \/ MetaBuild
    \/ MetaRequestGenerated
    \/ MetaRequestPinned
    \/ MetaRequestVariant
    \/ DatasetGetFeedList
    \/ MetaRelease
SpecMeta == InitMeta /\ [][NextMeta]_vars

InitMain == CharOff /\ SourceOff /\ MetaOff /\ MainInit
MainStep ==
    \/ MainEval
    \/ MainTrain
    \/ MainJoinExited
    \/ MainJoinTimeout
    \/ Tick
    \/ MainReturn
NextMain == MainStep \/ ChildExit
\* main keeps running and time keeps passing; a child need never exit.
SpecMain == InitMain /\ [][NextMain]_vars /\ WF_vars(MainStep)

----------------------------------------------------------------------------
(* Claims *)

\* How often character c occurs in the sequence s.
Count(s, c) == Cardinality({ i \in 1..Len(s) : s[i] = c })

\* C1: after _build with rotations = None and non-negative counts that sum to
\* the number of characters, the three splits have exactly the requested
\* sizes, are pairwise disjoint, and every character is in exactly one split.
C1_SplitsPartitionCharacters ==
    ( /\ ds_pc = "built"
      /\ ds_rotations = None
      /\ ds_num_train + ds_num_valid + ds_num_test = Len(ds_characters) )
    => LET d == Val(ds_data)
       IN  /\ Len(d.train) = ds_num_train
           /\ Len(d.valid) = ds_num_valid
           /\ Len(d.test) = ds_num_test
           /\ Range(d.train) \cap Range(d.valid) = {}
           /\ Range(d.train) \cap Range(d.test) = {}
           /\ Range(d.valid) \cap Range(d.test) = {}
           /\ \A c \in Range(ds_characters) :
                Count(d.train, c) + Count(d.valid, c) + Count(d.test, c) = 1

\* The last k elements of s (all of s when it has fewer).
Trailing(s, k) == SubSeq(s, Len(s) - Min(k, Len(s)) + 1, Len(s))

\* C2: _build partitions by position: train is the first num_train characters,
\* valid the next num_valid, and test the trailing num_test elements of the
\* sublist that starts at index num_test, so that test has
\* min(num_test, max(N - num_test, 0)) elements, none when num_test = 0.
C2_SplitsByPosition ==
    (ds_pc = "built" /\ ds_rotations = None)
    => LET d == Val(ds_data)
           N == Len(ds_characters)
       IN  /\ d.train = SubSeq(ds_characters, 1, Min(ds_num_train, N))
           /\ d.valid = SubSeq(ds_characters, Min(ds_num_train, N) + 1,
                               Min(ds_num_train + ds_num_valid, N))
           /\ d.test = Trailing(SubSeq(ds_characters, Min(ds_num_test, N) + 1, N),
                                ds_num_test)
           /\ Len(d.test) = Min(ds_num_test, Max(N - ds_num_test, 0))

\* The call that has just ended is request_datasets with requests_batch omitted.
GeneratedCall ==
    /\ md_pc = "returned"
    /\ Val(md_request).kind = "request_datasets"
    /\ Val(md_request).requests_batch = None

\* The call that has just ended is request_datasets with requests_batch given.
PinnedCall ==
    /\ md_pc = "returned"
    /\ Val(md_request).kind = "request_datasets"
    /\ Val(md_request).requests_batch # None

\* C3: with requests_batch omitted, unique_classes=True and num_classes <=
\* len(data_sources), every call returns exactly batch_size episodes, each of
\* exactly num_classes indices in 0..len(data_sources)-1, no index twice in an
\* episode.
C3_UniqueEpisodesHaveNoRepeat ==
    ( /\ GeneratedCall
      /\ Val(md_request).unique_classes
      /\ md_num_classes <= Len(md_data_sources) )
    => /\ Val(md_result).returned # None
       /\ LET requests_batch == Val(Val(md_result).returned)[1]
          IN  /\ Len(requests_batch) = md_batch_size
              /\ \A n \in 1..Len(requests_batch) :
                   /\ Len(requests_batch[n]) = md_num_classes
                   /\ \A k \in 1..Len(requests_batch[n]) :
                        requests_batch[n][k] \in 0..(Len(md_data_sources) - 1)
                   /\ ~HasRepeat(requests_batch[n])

\* C3's case, in a run where an earlier call with unique_classes=False has
\* returned an episode with a repeated index.
C3_Witness ==
    /\ GeneratedCall
    /\ Val(md_request).unique_classes
    /\ md_batch_size >= 2
    /\ md_num_classes >= 2
    /\ md_num_classes <= Len(md_data_sources)
    /\ Val(md_result).returned # None
    /\ "repeat" \in md_seen

\* R has batch_size episodes of num_classes in-range indices each.
WellFormed(R) ==
    /\ Len(R) = md_batch_size
    /\ \A n \in 1..Len(R) :
         /\ Len(R[n]) = md_num_classes
         /\ \A k \in 1..Len(R[n]) : IndexInRange(md_data_sources, R[n][k])

\* C4: a pinned well-formed R comes back unchanged as the first element of the
\* result; a pinned R of another length than batch_size makes the call raise
\* ValueError naming both lengths, and nothing is returned.
C4_PinnedBatchReturnedOrRejected ==
    PinnedCall
    => LET R == Val(Val(md_request).requests_batch)
           res == Val(md_result)
       IN  /\ WellFormed(R)
                => /\ res.returned # None
                   /\ Val(res.returned)[1] = R
           /\ Len(R) # md_batch_size
                => /\ res.returned = None
                   /\ res.raised # None
                   /\ Val(res.raised).type = "ValueError"
                   /\ Val(res.raised).args[2] = Len(R)
                   /\ Val(res.raised).args[4] = md_batch_size

C4_Witness ==
    /\ PinnedCall
    /\ md_batch_size >= 1
    /\ Len(Val(Val(md_request).requests_batch)) = md_batch_size - 1
    /\ Val(md_result).raised # None

\* C5: the feed list of a successful request_datasets call has batch_size *
\* num_classes pairs, and the pair of episode n and class k, at position
\* n * num_classes + k, binds slot k of dataset n of the batch to the data of
\* data_sources[requests_batch[n][k]].
C5_FeedListBindsSlotsInOrder ==
    ( /\ md_pc = "returned"
      /\ Val(md_request).kind = "request_datasets"
      /\ Val(md_result).returned # None )
    => LET requests_batch == Val(Val(md_result).returned)[1]
           feed_list == Val(Val(md_result).returned)[2]
       IN  /\ Len(feed_list) = md_batch_size * md_num_classes
           /\ \A n \in 0..(md_batch_size - 1) : \A k \in 0..(md_num_classes - 1) :
                feed_list[n * md_num_classes + k + 1] =
                  << md_dataset_batch[n + 1].data_tensors[k + 1],
                     GetItem(md_data_sources, requests_batch[n + 1][k + 1]).data >>

C5_Witness ==
    /\ GeneratedCall
    /\ Val(md_result).returned # None
    /\ md_batch_size >= 2
    /\ md_num_classes >= 2
    /\ LET requests_batch == Val(Val(md_result).returned)[1]
       IN  /\ requests_batch[1] # requests_batch[2]
           /\ requests_batch[1][1] # requests_batch[1][2]
    /\ Len(Val(Val(md_result).returned)[2]) = md_batch_size * md_num_classes

\* The sampler as _build leaves it.
FreshlyBuilt ==
    [batch_size |-> md_batch_size, num_classes |-> md_num_classes,
     data_sources |-> md_data_sources,
     dataset_batch |-> MetaBuildBatch(md_batch_size, md_num_classes, md_data_sources)]

\* C6: a request_datasets call, successful or failed, leaves dataset_batch (and
\* every slot in it), data_sources, batch_size and num_classes unchanged; so
\* whatever calls came before, a pinned well-formed R succeeds and returns what
\* it would on a freshly built sampler.
C6_RequestLeavesSamplerUnchanged ==
    /\ [][ (md_pc = "idle" /\ md_pc' = "returned") => UNCHANGED mdSelf ]_vars
    /\ []( (PinnedCall /\ WellFormed(Val(Val(md_request).requests_batch)))
           => /\ Val(md_result).returned # None
              /\ Val(md_result) =
                   RequestDatasets(FreshlyBuilt, Val(md_request).requests_batch,
                                   Val(md_request).unique_classes, <<>>) )

\* A pinned well-formed request has succeeded after an earlier call failed.
C6_Witness ==
    /\ PinnedCall
    /\ WellFormed(Val(Val(md_request).requests_batch))
    /\ md_batch_size >= 1
    /\ md_num_classes >= 1
    /\ "raised" \in md_seen
    /\ Val(md_result).returned # None

\* C7: with rotations (r1, ..., rm) and T characters in the positional train
\* split, the final train split has (1 + m) * T entries: the T originals in
\* order, then for each rotation in order one entry per original, in the
\* original order, with the original's data_dir, that rotation and the name
\* "<original name>_<rotation>"; valid and test are those of the partition.
C7_RotationsAppendCopies ==
    (ds_pc = "built" /\ ds_rotations # None)
    => LET d == Val(ds_data)
           r == Val(ds_rotations)
           T == Min(ds_num_train, Len(ds_characters))
       IN  /\ Len(d.train) = (1 + Len(r)) * T
           /\ \A i \in 1..T : d.train[i] = ds_characters[i]
           /\ \A j \in 1..Len(r) : \A i \in 1..T :
                LET copy == d.train[j * T + i]
                IN  /\ copy.data_dir = ds_characters[i].data_dir
                    /\ copy.rotation = r[j]
                    /\ copy.name = ds_characters[i].name \o "_" \o ToString(r[j])
           /\ d.valid = Partition(ds_characters, ds_num_train, ds_num_valid,
                                  ds_num_test).valid
           /\ d.test = Partition(ds_characters, ds_num_train, ds_num_valid,
                                 ds_num_test).test

C7_Witness ==
    /\ ds_pc = "built"
    /\ ds_rotations = Some(<<90, 180>>)
    /\ ds_num_train = 2
    /\ Len(ds_characters) >= 3
    /\ Len(Val(ds_data).train) = 6
    /\ Val(ds_data).train[6].name = ds_characters[2].name \o "_180"

\* C8: for a directory of N >= 1 image files, _build sets size to N when
\* max_size is None or at least N, and to max_size when 0 < max_size < N; the
\* items loaded are the first size entries of the (possibly shuffled) file
\* list, and size is the number of items in data.
C8_SizeFollowsMaxSize ==
    ( /\ ch_pc # "new"
      /\ Len(ch_listing) >= 1
      /\ (ch_max_size = None \/ Val(ch_max_size) > 0) )
    => LET N == Len(ch_listing)
       IN  /\ ch_pc = "built"
           /\ Val(ch_size) = IF ch_max_size = None \/ Val(ch_max_size) >= N
                               THEN N ELSE Val(ch_max_size)
           /\ Len(Val(ch_data)) = Val(ch_size)
           /\ \A i \in 1..Val(ch_size) :
                Val(ch_data)[i] = LoadImage(ch_file_paths[i], ch_rotation)

C8_Witness ==
    /\ ch_pc = "built"
    /\ ch_shuffle
    /\ ch_file_paths # ch_listing
    /\ ch_max_size = Some(2)
    /\ Len(ch_listing) = 3
    /\ ch_size = Some(2)

\* The call that has just ended is get_feed_list on a dataset of the batch.
FeedListCall ==
    /\ md_pc = "returned"
    /\ Val(md_request).kind = "get_feed_list"

\* C9: get_feed_list(data_arrays) returns the pairs (slot k, data_arrays[k]) in
\* slot order when there are num_classes arrays; otherwise it raises
\* AssertionError and returns no pairing; either way the dataset still has its
\* num_classes slots as built.
C9_FeedListPairsOrRaises ==
    FeedListCall
    => LET n == Val(md_request).dataset
           data_arrays == Val(md_request).data_arrays
           res == Val(md_result)
       IN  /\ IF Len(data_arrays) = md_num_classes
                THEN /\ res.returned # None
                     /\ Len(Val(res.returned)) = md_num_classes
                     /\ \A k \in 1..md_num_classes :
                          Val(res.returned)[k] =
                            <<Placeholder(n, k - 1), data_arrays[k]>>
                ELSE /\ res.returned = None
                     /\ res.raised # None
                     /\ Val(res.raised).type = "AssertionError"
           /\ md_dataset_batch[n + 1].data_tensors =
                [k \in 1..md_num_classes |-> Placeholder(n, k - 1)]

C9_Witness ==
    /\ FeedListCall
    /\ md_num_classes >= 2
    /\ Len(Val(md_request).data_arrays) = md_num_classes - 1
    /\ Val(md_result).raised # None

\* What main should have started, in order.
Configured ==
    (IF mn_cfg.eval THEN <<"EVAL">> ELSE <<>>)
      \o (IF mn_cfg.train THEN <<"TRAIN">> ELSE <<>>)

\* The safety part of C10.
MainOrder ==
    /\ Len(mn_processes) <= 2
    /\ \E m \in 0..Len(Configured) : mn_processes = SubSeq(Configured, 1, m)
    /\ \A p \in Children : mn_child[p] # "unstarted" <=> p \in Range(mn_processes)
    /\ mn_joined # <<>> => mn_processes = Configured
    /\ Len(mn_joined) <= Len(mn_processes)
    /\ \A i \in 1..Len(mn_joined) :
         /\ mn_joined[i].name = mn_processes[i]
         /\ mn_joined[i].timeout = mn_cfg.timeout
         /\ mn_joined[i].outcome = "timed out"
              => mn_child[mn_joined[i].name] \in {"running", "exited"}
    /\ \A p \in Children : mn_child[p] # "terminated"
    /\ mn_pc = "done" => Len(mn_joined) = Len(Configured)

\* C10: main starts EVAL only if cfg.eval is set and TRAIN only if cfg.train
\* is set, EVAL first, and every configured child before it joins any; it
\* joins them in start order with the configured timeout and never terminates
\* a child; and with a finite timeout main eventually returns, even if a child
\* never exits.
C10_MainStartsJoinsAndReturns ==
    /\ []MainOrder
    /\ (mn_cfg.timeout # None) ~> (mn_pc = "done")

\* main has returned and a child whose join timed out is still running.
C10_Witness ==
    /\ mn_pc = "done"
    /\ mn_processes = <<"EVAL", "TRAIN">>
    /\ \E i \in 1..Len(mn_joined) :
         /\ mn_joined[i].outcome = "timed out"
         /\ mn_child[mn_joined[i].name] = "running"

====
